---- MODULE Spec2Model ----
(***************************************************************************)
(* Model of doc/src/sphinx/conf.py, the Sphinx configuration of the Util   *)
(* documentation.  Sphinx executes the file top to bottom, once per build  *)
(* process; the names the file binds are the configuration mapping.        *)
(*                                                                         *)
(* The model runs two independent build processes (Runs), each evaluating  *)
(* the file in its own environment (clock, build descriptor, installed     *)
(* theme package), so that properties comparing two evaluations can be     *)
(* stated over one behaviour.  pc[r] is the line of the next statement.    *)
(* The imports and the sys.path appends (lines 6-10, 18) bind no           *)
(* configuration name and are not steps of the model.                      *)
(***************************************************************************)
EXTENDS Integers, Sequences, FiniteSets, TLC

\* pc[r]         line of the next statement of run r (54: past the last line)
\* conf[r]       the configuration names bound so far, with their values
\* writes[r]     how many times each name has been assigned
\* out[r]        the lines printed
\* exc[r]        the exception that ended the evaluation, or None
\* clock[r]      the year of the build's clock
\* descriptor[r] project/Build.scala as find_release found it
\* themeLoad[r]  what importing flask_theme_support did
VARIABLES pc, conf, writes, out, exc, clock, descriptor, themeLoad

vars == <<pc, conf, writes, out, exc, clock, descriptor, themeLoad>>

\* Two build processes.
Runs == {1, 2}

\* Longest release string the build descriptor may declare.
MaxReleaseLen == 3

\* The years the build clock may show.
Years == {2013, 2014}

\* Characters of a release string: a digit, the dot, the qualifier delimiter.
Digits == {"6"}
ReleaseChars == Digits \cup {".", "-"}

\* Release strings, as character sequences; a release starts with a digit.
Releases ==
    {s \in UNION {[1..n -> ReleaseChars] : n \in 1..MaxReleaseLen} : s[1] \in Digits}

\* project/Build.scala as the resolver sees it: absent, present without a
\* release declaration, or present and declaring a release.
BuildDescriptors ==
    {[kind |-> "missing", release |-> <<>>], [kind |-> "nopattern", release |-> <<>>]}
    \cup {[kind |-> "valid", release |-> s] : s \in Releases}

NotRead == [kind |-> "unread", release |-> <<>>]

\* What __import__('flask_theme_support') can do: return, raise ImportError,
\* or raise any other exception (a SyntaxError in the package, say).
LoadOutcomes == {"loaded", "ImportError", "OtherError"}

\* Python's None.
None == "None"

\* ---------------------------------------------------------------- helpers

RECURSIVE Repeat(_, _)
\* s * n for a string s.
Repeat(s, n) == IF n = 0 THEN "" ELSE s \o Repeat(s, n - 1)

\* u'{} Twitter, Inc'.format(year)
FormatCopyright(year) == ToString(year) \o " Twitter, Inc"

\* sbt_versions.find_release: the descriptor's release, when it resolves.
Resolves(d) == d.kind = "valid"
find_release(d) == d.release

RECURSIVE NumericPrefix(_)
\* The longest prefix of s made of digits and dots.
NumericPrefix(s) ==
    IF s = <<>> \/ Head(s) \notin Digits \cup {"."}
    THEN <<>>
    ELSE <<Head(s)>> \o NumericPrefix(Tail(s))

\* sbt_versions.release_to_version: the release without its qualifier.
release_to_version(release) == NumericPrefix(release)

\* ------------------------------------------------------------ the program

\* Line 20, lines 28-30 and line 38: the enhanced theme.
EnhancedThemeName == "flask"
EnhancedOptions == [index_logo |-> None]
EnhancedStyleTypo == "FlaskyStyle"
EnhancedStyle == "flask_theme_support.FlaskyStyle"

\* Lines 51-53: the fallback theme.
FallbackStyle == "tango"
FallbackThemeNameUnchanged == "flask"
FallbackThemeName == "default"
FallbackOptionsKept == [index_logo |-> None]
FallbackOptions == <<>>

\* The plain assignments of lines 12-38: the name bound, the value, and the
\* line of the next statement.
Settings ==
    (12 :> [key |-> "highlight_language", val |-> "scala", next |-> 13]) @@
    (13 :> [key |-> "extensions", val |-> <<"sphinx.ext.extlinks">>, next |-> 14]) @@
    (14 :> [key |-> "templates_path", val |-> <<"_templates">>, next |-> 15]) @@
    (15 :> [key |-> "source_suffix", val |-> ".rst", next |-> 16]) @@
    (16 :> [key |-> "master_doc", val |-> "index", next |-> 19]) @@
    (19 :> [key |-> "html_theme_path", val |-> <<"_themes">>, next |-> 20]) @@
    (20 :> [key |-> "html_theme", val |-> EnhancedThemeName, next |-> 21]) @@
    (21 :> [key |-> "html_short_title", val |-> "Util", next |-> 22]) @@
    (22 :> [key |-> "html_static_path", val |-> <<"_static">>, next |-> 23]) @@
    (23 :> [key |-> "html_sidebars",
            val |-> ("index" :> <<"sidebarintro.html", "searchbox.html">>) @@
                    ("**" :> <<"sidebarintro.html", "localtoc.html",
                               "relations.html", "searchbox.html">>),
            next |-> 27]) @@
    (27 :> [key |-> "html_favicon", val |-> "_static/favicon.ico", next |-> 28]) @@
    (28 :> [key |-> "html_theme_options", val |-> EnhancedOptions, next |-> 32]) @@
    (32 :> [key |-> "project", val |-> "Util", next |-> 33]) @@
    (34 :> [key |-> "htmlhelp_basename", val |-> "util", next |-> 35]) @@
    (38 :> [key |-> "pygments_style", val |-> EnhancedStyle, next |-> 42])

\* The print statements of the except block.
WarningText ==
    (44 :> Repeat("-", 74)) @@
    (45 :> "Warning: Flask themes unavailable.  Building with default theme") @@
    (46 :> "If you want the Flask themes, run this command and build again:") @@
    (47 :> "") @@
    (48 :> "  git submodule update --init") @@
    (49 :> Repeat("-", 74))

\* The except block with html_theme_path mistyped for html_theme.
FallbackSettingsThemePath ==
    (51 :> [key |-> "pygments_style", val |-> FallbackStyle, next |-> 52]) @@
    (52 :> [key |-> "html_theme_path", val |-> <<FallbackThemeName>>, next |-> 53]) @@
    (53 :> [key |-> "html_theme_options", val |-> FallbackOptions, next |-> 54])

\* The assignments of the except block.
FallbackSettings ==
    (51 :> [key |-> "pygments_style", val |-> FallbackStyle, next |-> 52]) @@
    (52 :> [key |-> "html_theme", val |-> FallbackThemeName, next |-> 53]) @@
    (53 :> [key |-> "html_theme_options", val |-> FallbackOptions, next |-> 54])

\* A handler naming the wrong exception class, and a bare except.
CaughtIOError(o) == o = "IOError"
CaughtAll(o) == TRUE

\* except ImportError: the exceptions the handler catches.
Caught(o) == o = "ImportError"

\* name = value at module level: bind the name, count the store.
Bind(ns, k, v) == [x \in DOMAIN ns \cup {k} |-> IF x = k THEN v ELSE ns[x]]
Count(w, k) == [x \in DOMAIN w \cup {k} |-> IF x = k /\ k \in DOMAIN w THEN w[x] + 1
                                            ELSE IF x = k THEN 1 ELSE w[x]]

Store(r, k, v) ==
    /\ conf' = [conf EXCEPT ![r] = Bind(conf[r], k, v)]
    /\ writes' = [writes EXCEPT ![r] = Count(writes[r], k)]

Running(r) == exc[r] = None /\ pc[r] < 54

Init ==
    /\ pc = [r \in Runs |-> 12]
    /\ conf = [r \in Runs |-> <<>>]
    /\ writes = [r \in Runs |-> <<>>]
    /\ out = [r \in Runs |-> <<>>]
    /\ exc = [r \in Runs |-> None]
    /\ clock \in [Runs -> Years]
    /\ descriptor = [r \in Runs |-> NotRead]
    /\ themeLoad = [r \in Runs |-> "untried"]

\* Lines 12-32, 34, 38: a plain assignment.
Assign(r) ==
    /\ Running(r)
    /\ pc[r] \in DOMAIN Settings
    /\ Store(r, Settings[pc[r]].key, Settings[pc[r]].val)
    /\ pc' = [pc EXCEPT ![r] = Settings[pc[r]].next]
    /\ UNCHANGED <<out, exc, clock, descriptor, themeLoad>>

\* Line 33: copyright = u'{} Twitter, Inc'.format(datetime.datetime.now().year)
Copyright(r) ==
    /\ Running(r)
    /\ pc[r] = 33
    /\ Store(r, "copyright", FormatCopyright(clock[r]))
    /\ pc' = [pc EXCEPT ![r] = 34]
    /\ UNCHANGED <<out, exc, clock, descriptor, themeLoad>>

\* Line 35 with the resolver's failure swallowed (lines 35-36 skipped).
FindReleaseSwallowed(r) ==
    /\ Running(r)
    /\ pc[r] = 35
    /\ \E d \in BuildDescriptors :
        /\ descriptor' = [descriptor EXCEPT ![r] = d]
        /\ IF Resolves(d)
           THEN /\ Store(r, "release", find_release(d))
                /\ pc' = [pc EXCEPT ![r] = 36]
           ELSE /\ pc' = [pc EXCEPT ![r] = 38]
                /\ UNCHANGED <<conf, writes>>
    /\ UNCHANGED <<out, exc, clock, themeLoad>>

\* Line 35: release = sbt_versions.find_release(...); a resolver failure is
\* not caught and ends the evaluation.
FindRelease(r) ==
    /\ Running(r)
    /\ pc[r] = 35
    /\ \E d \in BuildDescriptors :
        /\ descriptor' = [descriptor EXCEPT ![r] = d]
        /\ IF Resolves(d)
           THEN /\ Store(r, "release", find_release(d))
                /\ pc' = [pc EXCEPT ![r] = 36]
                /\ UNCHANGED exc
           ELSE /\ exc' = [exc EXCEPT ![r] = "ResolutionError"]
                /\ UNCHANGED <<pc, conf, writes>>
    /\ UNCHANGED <<out, clock, themeLoad>>

\* Line 36 with the release stored unconverted.
ReleaseToVersionIdentity(r) ==
    /\ Running(r)
    /\ pc[r] = 36
    /\ Store(r, "version", conf[r]["release"])
    /\ pc' = [pc EXCEPT ![r] = 38]
    /\ UNCHANGED <<out, exc, clock, descriptor, themeLoad>>

\* Line 36: version = sbt_versions.release_to_version(release)
ReleaseToVersion(r) ==
    /\ Running(r)
    /\ pc[r] = 36
    /\ Store(r, "version", release_to_version(conf[r]["release"]))
    /\ pc' = [pc EXCEPT ![r] = 38]
    /\ UNCHANGED <<out, exc, clock, descriptor, themeLoad>>

\* Lines 41-43 with the fallback block run after a successful import too.
ImportThemeFallthrough(r) ==
    /\ Running(r)
    /\ pc[r] = 42
    /\ \E o \in LoadOutcomes :
        /\ themeLoad' = [themeLoad EXCEPT ![r] = o]
        /\ IF o = "loaded" \/ Caught(o)
           THEN pc' = [pc EXCEPT ![r] = 44] /\ UNCHANGED exc
           ELSE exc' = [exc EXCEPT ![r] = o] /\ UNCHANGED pc
    /\ UNCHANGED <<conf, writes, out, clock, descriptor>>

\* Lines 41-43: try: __import__('flask_theme_support') except ImportError
ImportTheme(r) ==
    /\ Running(r)
    /\ pc[r] = 42
    /\ \E o \in LoadOutcomes :
        /\ themeLoad' = [themeLoad EXCEPT ![r] = o]
        /\ IF o = "loaded"
           THEN pc' = [pc EXCEPT ![r] = 54] /\ UNCHANGED exc
           ELSE IF Caught(o)
                THEN pc' = [pc EXCEPT ![r] = 44] /\ UNCHANGED exc
                ELSE exc' = [exc EXCEPT ![r] = o] /\ UNCHANGED pc
    /\ UNCHANGED <<conf, writes, out, clock, descriptor>>

\* Lines 44-49: one print statement of the warning.
PrintWarning(r) ==
    /\ Running(r)
    /\ pc[r] \in DOMAIN WarningText
    /\ out' = [out EXCEPT ![r] = Append(out[r], WarningText[pc[r]])]
    /\ pc' = [pc EXCEPT ![r] = IF pc[r] = 49 THEN 51 ELSE pc[r] + 1]
    /\ UNCHANGED <<conf, writes, exc, clock, descriptor, themeLoad>>

\* Lines 51-53 with line 53 resetting version to the release.
FallbackResetsVersion(r) ==
    /\ Running(r)
    /\ pc[r] \in DOMAIN FallbackSettings
    /\ IF pc[r] = 53
       THEN Store(r, "version", conf[r]["release"])
       ELSE Store(r, FallbackSettings[pc[r]].key, FallbackSettings[pc[r]].val)
    /\ pc' = [pc EXCEPT ![r] = FallbackSettings[pc[r]].next]
    /\ UNCHANGED <<out, exc, clock, descriptor, themeLoad>>

\* Lines 51-53: one assignment of the fallback theme.
Fallback(r) ==
    /\ Running(r)
    /\ pc[r] \in DOMAIN FallbackSettings
    /\ Store(r, FallbackSettings[pc[r]].key, FallbackSettings[pc[r]].val)
    /\ pc' = [pc EXCEPT ![r] = FallbackSettings[pc[r]].next]
    /\ UNCHANGED <<out, exc, clock, descriptor, themeLoad>>

Step(r) ==
    \/ Assign(r)
    \/ Copyright(r)
    \/ FindRelease(r)
    \/ ReleaseToVersion(r)
    \/ ImportTheme(r)
    \/ PrintWarning(r)
    \/ Fallback(r)

Next == \E r \in Runs : Step(r)

Spec == Init /\ [][Next]_vars

\* ----------------------------------------------------------------- claims

\* The run has reached the end of the file.
Completed(r) == pc[r] = 54 /\ exc[r] = None

\* The run has stopped: at the end of the file, or on an uncaught exception.
Terminated(r) == ~Running(r)

ThemeKeys == {"html_theme", "html_theme_options", "pygments_style"}

\* The two variants of the theme configuration, as the specification names them.
EnhancedVariant ==
    [html_theme |-> "flask", html_theme_options |-> [index_logo |-> "None"],
     pygments_style |-> "flask_theme_support.FlaskyStyle"]
FallbackVariant ==
    [html_theme |-> "default", html_theme_options |-> <<>>, pygments_style |-> "tango"]

\* The theme fields the run has bound so far.
ThemeOf(r) == [k \in ThemeKeys \cap DOMAIN conf[r] |-> conf[r][k]]

\* The state of the theme guard: Fallback once a fallback value is installed.
ThemeState(r) ==
    IF \E k \in ThemeKeys \cap DOMAIN conf[r] : conf[r][k] = FallbackVariant[k]
    THEN "Fallback" ELSE "Enhanced"

\* The six lines of the warning.
Warning == [i \in 1..6 |-> WarningText[43 + i]]

LoadFailures == {"ImportError", "OtherError"}

\* C1 as stated: whenever the load of flask_theme_support fails, the run ends
\* normally with the fallback theme exactly and a warning printed.
C1_AnyLoadFailureFallsBack ==
    \A r \in Runs :
        (themeLoad[r] \in LoadFailures /\ Terminated(r)) =>
            /\ Completed(r)
            /\ ThemeOf(r) = FallbackVariant
            /\ out[r] # <<>>

\* C1 amended: whenever the load of flask_theme_support fails with ImportError,
\* the run ends normally with the fallback theme exactly (html_theme 'default',
\* html_theme_options {}, pygments_style 'tango') and the warning printed.
C1_ImportErrorFallsBack ==
    \A r \in Runs :
        /\ themeLoad[r] = "ImportError" => exc[r] = None
        /\ (themeLoad[r] = "ImportError" /\ Terminated(r)) =>
            /\ Completed(r)
            /\ ThemeOf(r) = FallbackVariant
            /\ out[r] = Warning

C1_Witness ==
    \E r \in Runs : themeLoad[r] = "ImportError" /\ Completed(r) /\ Len(out[r]) = 6

\* C2: when flask_theme_support loads, the run ends with the enhanced theme,
\* and none of the three theme fields holds its fallback value.
C2_LoadedIsEnhanced ==
    \A r \in Runs :
        themeLoad[r] = "loaded" =>
            /\ Completed(r)
            /\ ThemeOf(r) = EnhancedVariant
            /\ \A k \in ThemeKeys : conf[r][k] # FallbackVariant[k]

C2_Witness ==
    \E r \in Runs : themeLoad[r] = "loaded" /\ "version" \in DOMAIN conf[r]

\* C3: a missing descriptor, or one without a release pattern, ends the run at
\* line 35 with the resolver's error uncaught: release, version and
\* pygments_style are never bound and the run takes no further step.
C3_ResolverFailureAborts ==
    \A r \in Runs :
        descriptor[r].kind \in {"missing", "nopattern"} =>
            /\ exc[r] = "ResolutionError"
            /\ pc[r] = 35
            /\ DOMAIN conf[r] \cap {"release", "version", "pygments_style"} = {}
            /\ ~Completed(r)
            /\ ~ENABLED Step(r)

C3_Witness ==
    /\ descriptor[1].kind = "missing"
    /\ descriptor[2].kind = "nopattern"
    /\ exc[1] = "ResolutionError"

\* C4 as stated: whatever the kind of load failure, no exception escapes and
\* the run goes on to the end of the file.
C4_AnyLoadFailureHandled ==
    \A r \in Runs :
        themeLoad[r] \in LoadFailures =>
            /\ exc[r] = None
            /\ Completed(r) \/ ENABLED Step(r)

\* C4 amended: a load failure that raises ImportError is caught: no exception
\* escapes and the run goes on to the end of the file.
C4_ImportErrorHandled ==
    \A r \in Runs :
        themeLoad[r] = "ImportError" =>
            /\ exc[r] = None
            /\ Completed(r) \/ ENABLED Step(r)

C4_Witness ==
    \E r \in Runs : themeLoad[r] = "ImportError" /\ pc[r] = 44 /\ exc[r] = None

\* C5: once version is bound, release is the descriptor's release R, version
\* is release_to_version(R), and converting the version again changes nothing.
C5_VersionIsCanonicalRelease ==
    \A r \in Runs :
        "version" \in DOMAIN conf[r] =>
            /\ descriptor[r].kind = "valid"
            /\ conf[r]["release"] = descriptor[r].release
            /\ conf[r]["version"] = release_to_version(descriptor[r].release)
            /\ release_to_version(conf[r]["version"]) = conf[r]["version"]

C5_Witness ==
    \E r \in Runs :
        /\ Completed(r)
        /\ conf[r]["version"] # conf[r]["release"]
        /\ Len(conf[r]["version"]) > 1

\* C6: the theme state starts Enhanced; it changes only from Enhanced to
\* Fallback, only in a run whose theme load failed; a run whose load succeeded
\* is Enhanced throughout.
C6_ThemeStateMachine ==
    /\ \A r \in Runs : ThemeState(r) = "Enhanced"
    /\ [][\A r \in Runs :
            ThemeState(r)' # ThemeState(r) =>
                /\ ThemeState(r) = "Enhanced"
                /\ ThemeState(r)' = "Fallback"
                /\ themeLoad[r] \in LoadFailures]_vars
    /\ [](\A r \in Runs : themeLoad[r] = "loaded" => ThemeState(r) = "Enhanced")

C6_Witness ==
    /\ ThemeState(1) = "Fallback"
    /\ Completed(1)
    /\ themeLoad[2] = "loaded"
    /\ ThemeState(2) = "Enhanced"

\* C7 as stated: no configuration key is assigned a second time.
C7_EveryKeyWrittenOnce ==
    \A r \in Runs : \A k \in DOMAIN writes[r] : writes[r][k] <= 1

\* C7 amended: every key is assigned once, except that html_theme,
\* html_theme_options and pygments_style are assigned a second time (and no
\* more) in a run whose theme load raised ImportError.
C7_OnlyThemeKeysRewritten ==
    \A r \in Runs :
        /\ DOMAIN writes[r] = DOMAIN conf[r]
        /\ \A k \in DOMAIN writes[r] :
            \/ writes[r][k] = 1
            \/ writes[r][k] = 2 /\ k \in ThemeKeys /\ themeLoad[r] = "ImportError"
        /\ (Completed(r) /\ themeLoad[r] = "ImportError") =>
            \A k \in ThemeKeys : writes[r][k] = 2

C7_Witness ==
    \E r \in Runs : Completed(r) /\ \A k \in ThemeKeys : writes[r][k] = 2

\* The fields the version resolver feeds, as far as the run has bound them.
ResolverOf(r) == [k \in {"release", "version"} \cap DOMAIN conf[r] |-> conf[r][k]]

\* C8: of two finished runs, those that read the same build descriptor agree
\* on release and version whatever the theme load did, and those with the same
\* theme load outcome and valid descriptors agree on the theme fields.
C8_ResolverAndGuardIndependent ==
    \A a, b \in Runs :
        (Terminated(a) /\ Terminated(b)) =>
            /\ descriptor[a] = descriptor[b] => ResolverOf(a) = ResolverOf(b)
            /\ ( /\ themeLoad[a] = themeLoad[b]
                 /\ descriptor[a].kind = "valid"
                 /\ descriptor[b].kind = "valid" ) => ThemeOf(a) = ThemeOf(b)

C8_Witness ==
    /\ Completed(1) /\ Completed(2)
    /\ descriptor[1] = descriptor[2]
    /\ Len(descriptor[1].release) = 3
    /\ themeLoad[1] = "loaded"
    /\ themeLoad[2] = "ImportError"

\* A run that ended in the fallback theme beside one that ended enhanced.
FallbackBesideEnhanced(a, b) ==
    /\ Completed(a) /\ themeLoad[a] = "ImportError"
    /\ Completed(b) /\ themeLoad[b] = "loaded"
    /\ descriptor[a] = descriptor[b]

\* The fallback run differs from the enhanced run in the three theme keys and
\* in nothing else.
SameButTheme(a, b) ==
    /\ DOMAIN conf[a] = DOMAIN conf[b]
    /\ \A k \in DOMAIN conf[a] : (conf[a][k] # conf[b][k]) <=> (k \in ThemeKeys)
    /\ conf[a]["html_theme_path"] = <<"_themes">>

\* C9 as stated: a fallback run and an enhanced run with the same build
\* descriptor differ in exactly the three theme keys.
C9_FallbackFrame ==
    \A a, b \in Runs : FallbackBesideEnhanced(a, b) => SameButTheme(a, b)

\* C9 amended: a fallback run and an enhanced run with the same build
\* descriptor and the same clock year differ in exactly the three theme keys.
C9_FallbackFrameSameYear ==
    \A a, b \in Runs :
        (FallbackBesideEnhanced(a, b) /\ clock[a] = clock[b]) => SameButTheme(a, b)

C9_Witness ==
    \E a, b \in Runs :
        /\ FallbackBesideEnhanced(a, b)
        /\ clock[a] = clock[b]
        /\ conf[a]["html_theme"] = "default"

\* The order of the guard and the resolver, and what a run aborted by the
\* resolver leaves behind; the warning is printed exactly for the load
\* outcomes in failures.
GuardAndWarning(failures) ==
    \A r \in Runs :
        /\ themeLoad[r] # "untried" => {"release", "version"} \subseteq DOMAIN conf[r]
        /\ out[r] # <<>> => themeLoad[r] \in failures
        /\ Terminated(r) => (out[r] # <<>> <=> themeLoad[r] \in failures)
        /\ (Completed(r) /\ ThemeState(r) = "Enhanced") => out[r] = <<>>
        /\ exc[r] = "ResolutionError" =>
            /\ themeLoad[r] = "untried"
            /\ out[r] = <<>>
            /\ conf[r]["html_theme"] = "flask"
            /\ conf[r]["html_theme_options"] = [index_logo |-> "None"]

\* C10 as stated: the guard runs after version resolution, the warning is
\* printed if and only if the guard is reached and the theme import fails, and
\* a run aborted by the resolver never tries the import.
C10_WarningIffLoadFails == GuardAndWarning(LoadFailures)

\* C10 amended: the same, with the warning printed if and only if the guard is
\* reached and the theme import fails with ImportError.
C10_WarningIffImportError == GuardAndWarning({"ImportError"})

C10_Witness ==
    /\ exc[1] = "ResolutionError"
    /\ Completed(2)
    /\ out[2] = Warning

====
